---------------------------- MODULE Spec2Model ----------------------------
(***************************************************************************)
(* A model of the table utilities of pure_ocean_breeze/data/tools.py:      *)
(* merge_many, corr_two_daily / func_two_daily (with the nested            *)
(* func_rolling) and drop_duplicates_index.                                *)
(*                                                                         *)
(* Values.  A missing value (NaN, NaT, None) is the empty tuple <<>>, a    *)
(* present value x is the one-element tuple <<x>>, so that the two can be  *)
(* compared.  A correlation coefficient is kept exactly, as                *)
(* <<sign, p, q>> with r^2 = p/q in lowest terms.                          *)
(***************************************************************************)
EXTENDS Integers, Sequences, FiniteSets, TLC

VARIABLES
    op,              \* which entry point the caller invoked
    pc,              \* position of the call
    err,             \* the exception that left the call ("" for none)
    new,             \* drop_duplicates_index: the caller's table
    ret,             \* drop_duplicates_index: returned tables, one per call made
    dfs,             \* merge_many / func_two_daily: the wide panels passed in
    rolling_window,  \* func_two_daily: the window length
    twins,           \* func_two_daily: the joined long table, by entity group
    srt,             \* func_rolling: each group after sort_values(["date"])
    slots,           \* rolling_apply: the per-window results of each group
    corrs,           \* groupby.apply: what func_rolling returned for each group
    cors             \* func_two_daily: the pivoted result panel

vars == <<op, pc, err, new, ret, dfs, rolling_window, twins, srt, slots, corrs, cors>>

----------------------------------------------------------------------------
(* Bounds of the model. *)

MaxDate == 3          \* dates are 1..MaxDate
MaxRows == 3          \* rows of one entity group, rows of a table to deduplicate
MaxWindow == 2        \* window lengths are 1..MaxWindow (0 and -1 on the call path)
MaxPanelRows == 2     \* rows of a wide panel handed to merge_many

Dates == 1..MaxDate
Codes == {"A", "B"}
FacVals == {0, 1}
IndexNames == {"date", "time", "None"}

NaN == <<>>
Some(x) == <<x>>

SeqsUpTo(S, n) == UNION {[1..k -> S] : k \in 0..n}

RECURSIVE SumSeq(_)
SumSeq(s) == IF s = <<>> THEN 0 ELSE Head(s) + SumSeq(Tail(s))

RECURSIVE GCD(_, _)
GCD(a, b) == IF b = 0 THEN a ELSE GCD(b, a % b)

Range(s) == {s[i] : i \in DOMAIN s}

----------------------------------------------------------------------------
(* drop_duplicates_index *)

\* A time-indexed table: the index name, the data columns in order, the rows
\* in order; each row has its index value and one value per data column.
DedupTables ==
    LET colss == {<<"A">>, <<"B", "A">>}
    IN  UNION {
          [name : IndexNames, columns : {cs},
           rows : SeqsUpTo([idx : Dates, vals : [1..Len(cs) -> FacVals]], MaxRows)]
          : cs \in colss }

\* df.reset_index(): the index becomes the first column, named after the
\* index, or "index" when the index has no name.
reset_index(t) ==
    [columns |-> <<IF t.name = "None" THEN "index" ELSE t.name>> \o t.columns,
     rows    |-> [i \in 1..Len(t.rows) |-> <<t.rows[i].idx>> \o t.rows[i].vals]]

\* df.rename(columns={list(df.columns)[0]: "date"})
rename_first(df) ==
    LET old == df.columns[1]
    IN  [df EXCEPT !.columns =
            [i \in 1..Len(df.columns) |->
                IF df.columns[i] = old THEN "date" ELSE df.columns[i]]]

ColPos(df, col) == CHOOSE i \in 1..Len(df.columns) : df.columns[i] = col

\* A single pass over the rows that deletes only the first repeated row it meets.
RECURSIVE DropOneDuplicate(_, _, _)
DropOneDuplicate(rows, p, seen) ==
    IF rows = <<>> THEN <<>>
    ELSE IF Head(rows)[p] \in seen THEN Tail(rows)
    ELSE <<Head(rows)>> \o DropOneDuplicate(Tail(rows), p, seen \cup {Head(rows)[p]})

\* Keeps the last occurrence of each value instead of the first.
RECURSIVE KeepLast(_, _, _)
KeepLast(rows, p, seen) ==
    IF rows = <<>> THEN <<>>
    ELSE IF \E j \in 2..Len(rows) : rows[j][p] = Head(rows)[p]
         THEN KeepLast(Tail(rows), p, seen)
         ELSE <<Head(rows)>> \o KeepLast(Tail(rows), p, seen)

\* The rows kept by drop_duplicates(keep="first"): a row is dropped when its
\* value in column p was seen in an earlier row.
RECURSIVE KeepFirst(_, _, _)
KeepFirst(rows, p, seen) ==
    IF rows = <<>> THEN <<>>
    ELSE IF Head(rows)[p] \in seen THEN KeepFirst(Tail(rows), p, seen)
    ELSE <<Head(rows)>> \o KeepFirst(Tail(rows), p, seen \cup {Head(rows)[p]})

\* df.drop_duplicates(subset=["date"], keep="first")
drop_duplicates(df) ==
    [df EXCEPT !.rows = KeepFirst(df.rows, ColPos(df, "date"), {})]

\* set_index that leaves the index without the name of the column.
set_index_unnamed(df) ==
    LET p == ColPos(df, "date")
        without(s) == [i \in 1..(Len(s) - 1) |-> IF i < p THEN s[i] ELSE s[i + 1]]
    IN  [name    |-> "None",
         columns |-> without(df.columns),
         rows    |-> [i \in 1..Len(df.rows) |->
                        [idx |-> df.rows[i][p], vals |-> without(df.rows[i])]]]

\* df.set_index("date"): the column leaves the data columns and becomes the
\* index, which carries its name.
set_index(df) ==
    LET p == ColPos(df, "date")
        without(s) == [i \in 1..(Len(s) - 1) |-> IF i < p THEN s[i] ELSE s[i + 1]]
    IN  [name    |-> "date",
         columns |-> without(df.columns),
         rows    |-> [i \in 1..Len(df.rows) |->
                        [idx |-> df.rows[i][p], vals |-> without(df.rows[i])]]]

drop_duplicates_index(t) ==
    set_index(drop_duplicates(rename_first(reset_index(t))))

NoTable == [name |-> "None", columns |-> <<>>, rows |-> <<>>]
NoPanel == [index |-> {}, columns |-> {}, cells |-> <<>>]

InitDedup ==
    /\ op = "drop_duplicates_index"
    /\ pc = "start"
    /\ err = ""
    /\ new \in DedupTables
    /\ ret = <<>>
    /\ dfs = <<>>
    /\ rolling_window = 1
    /\ twins = <<>>
    /\ srt = <<>>
    /\ slots = <<>>
    /\ corrs = <<>>
    /\ cors = NoPanel

\* The caller calls drop_duplicates_index(new).
CallDedup ==
    /\ op = "drop_duplicates_index"
    /\ pc = "start"
    /\ ret' = <<drop_duplicates_index(new)>>
    /\ pc' = "returned"
    /\ UNCHANGED <<op, err, new, dfs, rolling_window, twins, srt, slots, corrs, cors>>

\* The caller calls drop_duplicates_index on the table the first call returned.
CallDedupAgain ==
    /\ op = "drop_duplicates_index"
    /\ pc = "returned"
    /\ ret' = Append(ret, drop_duplicates_index(ret[1]))
    /\ pc' = "returned_twice"
    /\ UNCHANGED <<op, err, new, dfs, rolling_window, twins, srt, slots, corrs, cors>>

NextDedup == CallDedup \/ CallDedupAgain

SpecDedup == InitDedup /\ [][NextDedup]_vars

(* Properties of drop_duplicates_index. *)

Returned == op = "drop_duplicates_index" /\ pc \in {"returned", "returned_twice"}

\* The positions of the input rows that are the first with their index value.
FirstPositions(t) ==
    {i \in 1..Len(t.rows) : \A j \in 1..(i - 1) : t.rows[j].idx # t.rows[i].idx}

\* The n-th smallest member of a set of positions.
NthOf(P, n) == CHOOSE i \in P : Cardinality({j \in P : j <= i}) = n

HasDuplicates(t) == Cardinality(FirstPositions(t)) < Len(t.rows)

\* C4: drop_duplicates_index returns exactly the rows that are the first
\* occurrence of their index value: every distinct index value of the input
\* appears exactly once, the row kept for it is the earliest input row with
\* that value, the kept rows are in their input order, and the data columns
\* keep their order.
C4_FirstOccurrenceKept ==
    Returned =>
        LET out == ret[1]
            P   == FirstPositions(new)
        IN  /\ out.columns = new.columns
            /\ Len(out.rows) = Cardinality(P)
            /\ \A n \in 1..Len(out.rows) : out.rows[n] = new.rows[NthOf(P, n)]
            /\ \A v \in {new.rows[i].idx : i \in 1..Len(new.rows)} :
                   Cardinality({n \in 1..Len(out.rows) : out.rows[n].idx = v}) = 1

\* A call on a table whose first and third rows share an index value and differ
\* in their data, with another index value between them.
C4_Witness ==
    /\ Returned
    /\ Len(new.rows) = 3
    /\ new.rows[1].idx = new.rows[3].idx
    /\ new.rows[1].idx # new.rows[2].idx
    /\ new.rows[1].vals # new.rows[3].vals
    /\ Len(new.columns) = 2
    /\ Len(ret[1].rows) = 2

\* C7: drop_duplicates_index is idempotent: a second application returns the
\* table the first one returned, in rows, row order, columns and index name.
C7_Idempotent ==
    (op = "drop_duplicates_index" /\ pc = "returned_twice") => ret[2] = ret[1]

\* Two applications to a table that has three rows with one index value and
\* an index not named "date".
C7_Witness ==
    /\ op = "drop_duplicates_index"
    /\ pc = "returned_twice"
    /\ Len(new.rows) = 3
    /\ Cardinality(FirstPositions(new)) = 1
    /\ new.name # "date"

\* C8, as stated: on an input without duplicate index values the returned
\* table equals the input, the index name included.
C8_Original ==
    (Returned /\ ~HasDuplicates(new)) => ret[1] = new

\* C8, amended: on an input without duplicate index values the call returns
\* the input's rows in the same order with the same columns and index values,
\* the returned index is named "date" whatever the input's index was named,
\* and the caller's table is left as it was.
C8_NoDuplicatesKeepsRows ==
    [][(op = "drop_duplicates_index" /\ pc = "start" /\ ~HasDuplicates(new)) =>
          /\ new' = new
          /\ ret'[1].rows = new.rows
          /\ ret'[1].columns = new.columns
          /\ ret'[1].name = "date"]_vars

\* A call on a two-row table without duplicates whose index is not named "date".
C8_Witness ==
    /\ Returned
    /\ ~HasDuplicates(new)
    /\ Len(new.rows) >= 2
    /\ new.name = "time"
    /\ ret[1].rows = new.rows


----------------------------------------------------------------------------
(* merge_many, and the call of func_two_daily up to its join *)

\* A wide panel: rows in index order, each with its date and one cell per
\* entity column; a cell is NaN or a number.
Panels ==
    SeqsUpTo([date : Dates, cells : [Codes -> {NaN, Some(1)}]], MaxPanelRows)

CodeOrder == <<"A", "B">>

\* df.stack().reset_index(): one long row per cell that is not NaN, row by
\* row and, inside a row, column by column.
RECURSIVE stack(_)
stack(panel) ==
    IF panel = <<>> THEN <<>>
    ELSE LET r == Head(panel)
             cell(i) == IF r.cells[CodeOrder[i]] = NaN THEN <<>>
                        ELSE <<[date |-> r.date, code |-> CodeOrder[i],
                                vals |-> <<r.cells[CodeOrder[i]][1]>>]>>
         IN  cell(1) \o cell(2) \o stack(Tail(panel))

\* pd.merge(x, y, on=["date", "code"]): the inner join, in the order of the
\* left table, each left row paired with every matching right row.
RECURSIVE merge(_, _)
merge(x, y) ==
    IF x = <<>> THEN <<>>
    ELSE LET l == Head(x)
             hits == SelectSeq(y, LAMBDA r : r.date = l.date /\ r.code = l.code)
         IN  [i \in 1..Len(hits) |->
                [date |-> l.date, code |-> l.code, vals |-> l.vals \o hits[i].vals]]
             \o merge(Tail(x), y)

RECURSIVE FoldMerge(_)
FoldMerge(tables) ==
    IF Len(tables) = 1 THEN tables[1]
    ELSE FoldMerge(<<merge(tables[1], tables[2])>> \o SubSeq(tables, 3, Len(tables)))

\* functools.reduce(function[, iterable]): without the iterable the call
\* itself raises TypeError, before the function is applied to anything.
reduce(iterable) ==
    IF iterable = <<>>
    THEN [raised |-> "TypeError", value |-> <<>>]
    ELSE [raised |-> "", value |-> FoldMerge(iterable[1])]

\* merge_many(dfs): the panels are stacked and their value columns renamed
\* fac1, fac2, ... (the position in vals); line 373 then calls reduce with the
\* lambda alone, the list of stacked tables is not passed.
merge_many(panels) ==
    LET stacked == [i \in 1..Len(panels) |-> stack(panels[i])]
    IN  reduce(<<>>)

\* groupby(["code"]): the rows of each entity present, in table order.
GroupByCode(table) ==
    [c \in {table[i].code : i \in 1..Len(table)} |->
        LET rows == SelectSeq(table, LAMBDA r : r.code = c)
        IN  [i \in 1..Len(rows) |->
               [date |-> rows[i].date, fac1 |-> rows[i].vals[1], fac2 |-> rows[i].vals[2]]]]

InitCall ==
    /\ op \in {"merge_many", "func_two_daily"}
    /\ pc = "start"
    /\ err = ""
    /\ new = NoTable
    /\ ret = <<>>
    /\ dfs \in [1..2 -> Panels] \cup (IF op = "merge_many" THEN [1..1 -> Panels] ELSE {})
    /\ rolling_window \in IF op = "merge_many" THEN {1} ELSE (-1)..MaxWindow
    /\ twins = <<>>
    /\ srt = <<>>
    /\ slots = <<>>
    /\ corrs = <<>>
    /\ cors = NoPanel

\* The caller calls merge_many(dfs).
CallMergeMany ==
    /\ op = "merge_many"
    /\ pc = "start"
    /\ LET m == merge_many(dfs)
       IN  /\ err' = m.raised
           /\ ret' = IF m.raised = "" THEN <<m.value>> ELSE <<>>
           /\ pc' = IF m.raised = "" THEN "returned" ELSE "raised"
    /\ UNCHANGED <<op, new, dfs, rolling_window, twins, srt, slots, corrs, cors>>

\* The caller calls func_two_daily(df1, df2, func, rolling_window): line 435
\* joins the two panels; an exception of merge_many leaves func_two_daily.
CallFuncTwoDaily ==
    /\ op = "func_two_daily"
    /\ pc = "start"
    /\ LET m == merge_many(dfs)
       IN  /\ err' = m.raised
           /\ twins' = IF m.raised = "" THEN GroupByCode(m.value) ELSE <<>>
           /\ pc' = IF m.raised = "" THEN "joined" ELSE "raised"
    /\ UNCHANGED <<op, new, ret, dfs, rolling_window, srt, slots, corrs, cors>>

NextCall == CallMergeMany \/ CallFuncTwoDaily

SpecCall == InitCall /\ [][NextCall]_vars

(* Properties of merge_many and the entry of func_two_daily. *)

\* The (date, code) pairs that have a value in the panel.
KeysOf(panel) ==
    {k \in Dates \X Codes :
        \E i \in 1..Len(panel) : panel[i].date = k[1] /\ panel[i].cells[k[2]] # NaN}

\* C2: merge_many returns a long table whose (date, code) keys are exactly
\* the pairs that have a value in every input panel.
C2_JoinIsIntersection ==
    (op = "merge_many" /\ pc # "start") =>
        /\ err = ""
        /\ Len(ret) = 1
        /\ {<<ret[1][i].date, ret[1][i].code>> : i \in 1..Len(ret[1])}
              = {k \in Dates \X Codes : \A n \in 1..Len(dfs) : k \in KeysOf(dfs[n])}

\* C5: func_two_daily with rolling_window <= 0 fails with InvalidWindow and
\* returns no panel.
C5_InvalidWindowRaised ==
    (op = "func_two_daily" /\ pc # "start" /\ rolling_window <= 0) =>
        (err = "InvalidWindow" /\ cors = NoPanel)

----------------------------------------------------------------------------
(* func_two_daily after the join: func_rolling per entity group, then the   *)
(* assembly of the result panel (lines 427-445)                             *)

Sign(x) == IF x > 0 THEN 1 ELSE IF x < 0 THEN -1 ELSE 0

\* np.corrcoef(a, b)[0, 1]: the Pearson correlation of two sequences of
\* equal length, NaN when either has no variance (a single element included).
Corr(a, b) ==
    LET n   == Len(a)
        sa  == SumSeq(a)
        sb  == SumSeq(b)
        sab == SumSeq([i \in 1..n |-> a[i] * b[i]])
        saa == SumSeq([i \in 1..n |-> a[i] * a[i]])
        sbb == SumSeq([i \in 1..n |-> b[i] * b[i]])
        num == n * sab - sa * sb
        den == (n * saa - sa * sa) * (n * sbb - sb * sb)
        g   == GCD(num * num, den)
    IN  IF den = 0 THEN NaN
        ELSE Some(<<Sign(num), (num * num) \div g, den \div g>>)

\* corr_in(a, b, c): the last date of the window and the correlation.
corr_in(a, b, c) == [date |-> Some(c[Len(c)]), corr |-> Corr(a, b)]

\* numpy_ext.rolling(np.arange(n), window, skip_na=True), each window cut to
\* idxs[[0, -1]]: the first and last position of every full window.
rolling(n, window) == [i \in 1..(n - window + 1) |-> <<i, i + window - 1>>]

\* A window cut that leaves out the row at its last position.
apply_without_last(df, idxs) ==
    LET w == SubSeq(df, idxs[1], idxs[2] - 1)
        col(f(_)) == [i \in 1..Len(w) |-> f(w[i])]
    IN  IF w = <<>> THEN [date |-> NaN, corr |-> NaN]
        ELSE corr_in(col(LAMBDA r : r.fac1), col(LAMBDA r : r.fac2),
                     col(LAMBDA r : r.date))

\* _apply_func_to_arrays(idxs): func on array[idxs[0]:idxs[-1] + 1] of each
\* of df.fac1, df.fac2, df.date.
apply_func_to_arrays(df, idxs) ==
    LET w == SubSeq(df, idxs[1], idxs[2])
        col(f(_)) == [i \in 1..Len(w) |-> f(w[i])]
    IN  corr_in(col(LAMBDA r : r.fac1), col(LAMBDA r : r.fac2),
                col(LAMBDA r : r.date))

\* prepend_na(arr, n): n rows of NaN before the results.
prepend_na(arr, n) == [i \in 1..n |-> [date |-> NaN, corr |-> NaN]] \o arr

\* A threshold that also evaluates a group of exactly rolling_window rows.
admits_equal(k, window) == k >= window

\* The test of line 429: df.shape[0] > rolling_window.
admits(k, window) == k > window

\* What func_rolling returns for a sorted group: the array of rolling_apply,
\* or None when the group is not longer than the window.
ReturnOf(df, results, window) ==
    IF admits(Len(df), window)
    THEN [kind |-> "array", rows |-> prepend_na(results, window - 1)]
    ELSE [kind |-> "None", rows |-> <<>>]

Pending == [kind |-> "pending", rows |-> <<>>]

Ascending(df) == \A i \in 1..(Len(df) - 1) : df[i].date <= df[i + 1].date

\* The permutations of 1..n, for every n a group can have.
PermTable ==
    [n \in 0..MaxRows |-> {f \in [1..n -> 1..n] : \A i, j \in 1..n : f[i] = f[j] => i = j}]

Perms(n) == PermTable[n]

\* The group left in its table order.
unsorted(df) == {df}

RemoveAt(s, i) == [j \in 1..(Len(s) - 1) |-> IF j < i THEN s[j] ELSE s[j + 1]]

\* df.sort_values(["date"]): ascending by date.  The default sort kind is
\* quicksort, which is not stable, so rows with the same date may come out in
\* any order: every ascending arrangement of the rows is a possible result.
RECURSIVE sort_values(_)
sort_values(df) ==
    IF df = <<>> THEN {<<>>}
    ELSE LET first == {i \in 1..Len(df) : \A j \in 1..Len(df) : df[i].date <= df[j].date}
         IN  UNION {{<<df[i]>> \o rest : rest \in sort_values(RemoveAt(df, i))} : i \in first}

\* Value cells of the long and wide result tables, all of one shape so that
\* any two can be compared.
DateV(d) == [k |-> "date", d |-> d, s |-> <<>>, c |-> ""]
StatV(x) == [k |-> "stat", d |-> 0, s |-> x, c |-> ""]
CodeV(c) == [k |-> "code", d |-> 0, s |-> <<>>, c |-> c]
NaNV == [k |-> "nan", d |-> 0, s |-> <<>>, c |-> ""]

\* pd.DataFrame(corrs.iloc[i]).dropna().assign(code=corrs.index[i]): an array
\* gives columns 0, 1, code and the rows without NaN; None gives a frame with
\* the one column code and no rows.
GroupFrame(r, c) ==
    IF r.kind = "None"
    THEN [columns |-> <<"code">>, rows |-> <<>>]
    ELSE LET kept == SelectSeq(r.rows, LAMBDA x : x.date # NaN /\ x.corr # NaN)
         IN  [columns |-> <<"0", "1", "code">>,
              rows |-> [i \in 1..Len(kept) |->
                          <<DateV(kept[i].date[1]), StatV(kept[i].corr[1]), CodeV(c)>>]]

\* Concatenation that lays the columns out as 0, 1, code whatever the frames.
RECURSIVE concat_fixed(_)
concat_fixed(frames) ==
    IF frames = <<>> THEN [columns |-> <<"0", "1", "code">>, rows |-> <<>>]
    ELSE [columns |-> <<"0", "1", "code">>,
          rows |-> Head(frames).rows \o concat_fixed(Tail(frames)).rows]

\* pd.concat(frames): the columns are the union of the frames' columns in
\* the order of first appearance; the rows follow frame by frame, each laid
\* out on the union's columns.
RECURSIVE concat(_)
concat(frames) ==
    IF Len(frames) = 1 THEN frames[1]
    ELSE LET x == frames[1]
             y == frames[2]
             extra == SelectSeq(y.columns, LAMBDA l : l \notin Range(x.columns))
             cols == x.columns \o extra
             lay(f, row) == [j \in 1..Len(cols) |->
                               IF cols[j] \in Range(f.columns)
                               THEN row[ColPos(f, cols[j])] ELSE NaNV]
             both == [columns |-> cols,
                      rows |-> [i \in 1..Len(x.rows) |-> lay(x, x.rows[i])]
                               \o [i \in 1..Len(y.rows) |-> lay(y, y.rows[i])]]
         IN  concat(<<both>> \o SubSeq(frames, 3, Len(frames)))

\* cors.pivot(index="date", columns="code", values="corr"); a repeated
\* (index, column) pair raises ValueError.
pivot(df) ==
    LET di == ColPos(df, "date")
        ci == ColPos(df, "code")
        vi == ColPos(df, "corr")
        n  == Len(df.rows)
        idx == {df.rows[i][di] : i \in 1..n}
        cls == {df.rows[i][ci] : i \in 1..n}
    IN  IF \E i, j \in 1..n : i # j /\ df.rows[i][di] = df.rows[j][di]
                                      /\ df.rows[i][ci] = df.rows[j][ci]
        THEN [raised |-> "ValueError", value |-> NoPanel]
        ELSE [raised |-> "",
              value |-> [index |-> idx, columns |-> cls,
                         cells |-> [k \in idx \X cls |->
                            IF \E i \in 1..n : df.rows[i][di] = k[1] /\ df.rows[i][ci] = k[2]
                            THEN df.rows[CHOOSE i \in 1..n :
                                     df.rows[i][di] = k[1] /\ df.rows[i][ci] = k[2]][vi]
                            ELSE NaNV]]]

\* Lines 438-445 on the results of the groups, the groups in key order: with
\* every result None groupby.apply hands back an empty frame, the loop adds
\* nothing and pd.concat([]) raises ValueError; otherwise the frames are
\* concatenated, the columns renamed by position and the table pivoted.
Assembled(results) ==
    LET keys == SelectSeq(CodeOrder, LAMBDA c : c \in DOMAIN results)
        cor  == [i \in 1..Len(keys) |-> GroupFrame(results[keys[i]], keys[i])]
    IN  IF \A c \in DOMAIN results : results[c].kind = "None"
        THEN [raised |-> "ValueError", value |-> NoPanel]
        ELSE pivot([concat(cor) EXCEPT !.columns = <<"date", "corr", "code">>])

\* rolling_apply's list of results, in window order.
AllResults(df, window) ==
    LET rolls == rolling(Len(df), window)
    IN  [i \in 1..Len(rolls) |-> apply_func_to_arrays(df, rolls[i])]

NoSlots == [ran |-> {}, out |-> <<>>]

\* The rows of a joined table: a date and the two factor values.
GroupRows == {r \in [date : Dates, fac1 : FacVals, fac2 : FacVals] : r.fac1 <= r.fac2}

\* Any rows in any order, dates repeated or not.
Groups == SeqsUpTo(GroupRows, MaxRows) \ {<<>>}

\* Groups as a join of two clean panels gives them: dates ascending without
\* repetition.
PlainGroups ==
    {g \in Groups : \A i \in 1..(Len(g) - 1) : g[i].date < g[i + 1].date}

\* Plain groups on the dates 1..k whose two factors agree.
DailyGroups ==
    {g \in PlainGroups : \A i \in 1..Len(g) : g[i].date = i /\ g[i].fac1 = g[i].fac2}

\* Groups in date order whose two factors agree; the dates, repeated or not,
\* are numbered from 1 without gaps.
OrderedGroups ==
    {g \in SeqsUpTo({r \in GroupRows : r.fac1 = r.fac2}, MaxRows) \ {<<>>} :
        /\ g[1].date = 1
        /\ \A i \in 1..(Len(g) - 1) : g[i + 1].date \in {g[i].date, g[i].date + 1}}

InitJoined(tables) ==
    /\ op = "func_two_daily"
    /\ pc = "joined"
    /\ err = ""
    /\ new = NoTable
    /\ ret = <<>>
    /\ dfs = <<>>
    /\ rolling_window \in 1..MaxWindow
    /\ twins \in tables
    /\ srt = [c \in DOMAIN twins |-> <<>>]
    /\ slots = [c \in DOMAIN twins |-> NoSlots]
    /\ corrs = [c \in DOMAIN twins |-> Pending]
    /\ cors = NoPanel

\* One entity, any rows in any order.
InitRoll == InitJoined([{"A"} -> Groups])

\* One or two entities with plain groups.
InitPanel == InitJoined(UNION {[S -> PlainGroups] : S \in (SUBSET Codes) \ {{}}})

\* One or two entities with daily groups.
InitPar == InitJoined(UNION {[S -> DailyGroups] : S \in (SUBSET Codes) \ {{}}})

\* A group in date order under key "A" and the same rows in another order
\* under key "B".
InitShuffle ==
    InitJoined(UNION {
        {[c \in Codes |-> IF c = "A" THEN g ELSE [i \in 1..Len(g) |-> g[f[i]]]] :
            f \in Perms(Len(g))} : g \in OrderedGroups})

\* groupby.apply calls func_rolling on the group of entity c: the sort, the
\* length test, rolling_apply over every window, the padding.
FuncRolling(c) ==
    /\ op = "func_two_daily"
    /\ pc = "joined"
    /\ c \in DOMAIN twins
    /\ corrs[c] = Pending
    /\ \E df \in sort_values(twins[c]) :
          LET results == AllResults(df, rolling_window)
          IN  /\ srt' = [srt EXCEPT ![c] = df]
              /\ slots' = [slots EXCEPT ![c] = [ran |-> 1..Len(results),
                                                 out |-> [i \in 1..Len(results) |-> Some(results[i])]]]
              /\ corrs' = [corrs EXCEPT ![c] = ReturnOf(df, results, rolling_window)]
    /\ UNCHANGED <<op, pc, err, new, ret, dfs, rolling_window, twins, cors>>

\* Lines 438-445, once func_rolling has returned for every group.
Assemble ==
    /\ op = "func_two_daily"
    /\ pc = "joined"
    /\ \A c \in DOMAIN twins : corrs[c] # Pending
    /\ LET a == Assembled(corrs)
       IN  /\ err' = a.raised
           /\ cors' = a.value
           /\ pc' = IF a.raised = "" THEN "done" ELSE "raised"
    /\ UNCHANGED <<op, new, ret, dfs, rolling_window, twins, srt, slots, corrs>>

NextRoll == (\E c \in Codes : FuncRolling(c)) \/ Assemble

SpecRoll == InitRoll /\ [][NextRoll]_vars
SpecPanel == InitPanel /\ [][NextRoll]_vars
NextEval == \E c \in Codes : FuncRolling(c)

SpecShuffle == InitShuffle /\ [][NextEval]_vars

----------------------------------------------------------------------------
(* The same computation with rolling_apply's windows as separate tasks:     *)
(* Parallel(n_jobs=6) runs them on workers and hands the results back as a  *)
(* list in task order.                                                      *)

\* The result of a task goes to the first slot still empty.
FirstEmpty(out, i) == CHOOSE j \in 1..Len(out) : out[j] = <<>> /\ \A h \in 1..(j - 1) : out[h] # <<>>

\* The result of task i is element i of the list Parallel returns.
SlotOf(out, i) == i

\* func_rolling starts on group c: the sort and the length test; a group not
\* longer than the window returns None, a longer one dispatches its windows.
Sort(c) ==
    /\ op = "func_two_daily"
    /\ pc = "joined"
    /\ c \in DOMAIN twins
    /\ srt[c] = <<>>
    /\ \E df \in sort_values(twins[c]) :
          /\ srt' = [srt EXCEPT ![c] = df]
          /\ IF admits(Len(df), rolling_window)
             THEN /\ slots' = [slots EXCEPT ![c] =
                       [ran |-> {},
                        out |-> [i \in 1..Len(rolling(Len(df), rolling_window)) |-> <<>>]]]
                  /\ corrs' = corrs
             ELSE /\ slots' = slots
                  /\ corrs' = [corrs EXCEPT ![c] = ReturnOf(df, <<>>, rolling_window)]
    /\ UNCHANGED <<op, pc, err, new, ret, dfs, rolling_window, twins, cors>>

\* A worker runs task i of group c.
EvalWindow(c, i) ==
    /\ op = "func_two_daily"
    /\ pc = "joined"
    /\ c \in DOMAIN twins
    /\ srt[c] # <<>>
    /\ corrs[c] = Pending
    /\ i \in 1..Len(slots[c].out)
    /\ i \notin slots[c].ran
    /\ slots' = [slots EXCEPT
          ![c].ran = @ \cup {i},
          ![c].out[SlotOf(slots[c].out, i)] =
              Some(apply_func_to_arrays(srt[c], rolling(Len(srt[c]), rolling_window)[i]))]
    /\ UNCHANGED <<op, pc, err, new, ret, dfs, rolling_window, twins, srt, corrs, cors>>

\* Every task of group c has run: rolling_apply pads the list and func_rolling
\* returns it.
Collect(c) ==
    /\ op = "func_two_daily"
    /\ pc = "joined"
    /\ c \in DOMAIN twins
    /\ srt[c] # <<>>
    /\ corrs[c] = Pending
    /\ slots[c].ran = 1..Len(slots[c].out)
    /\ corrs' = [corrs EXCEPT ![c] =
          ReturnOf(srt[c], [i \in 1..Len(slots[c].out) |-> slots[c].out[i][1]],
                   rolling_window)]
    /\ UNCHANGED <<op, pc, err, new, ret, dfs, rolling_window, twins, srt, slots, cors>>

NextPar ==
    \/ \E c \in Codes : Sort(c)
    \/ \E c \in Codes : \E i \in 1..MaxRows : EvalWindow(c, i)
    \/ \E c \in Codes : Collect(c)
    \/ Assemble

SpecPar == InitPar /\ [][NextPar]_vars

----------------------------------------------------------------------------
(* Properties of func_rolling and the assembly. *)

\* Equality of two lists of rows up to their order.
Count(x, v) == Cardinality({i \in 1..Len(x) : x[i] = v})

SameRows(x, y) == \A v \in Range(x) \cup Range(y) : Count(x, v) = Count(y, v)

\* The rows entity c contributes to the long result table.
Contributed(c) == GroupFrame(corrs[c], c).rows

\* The rows of a returned array that hold a result, as opposed to padding.
Emitted(r) == {i \in 1..Len(r.rows) : r.rows[i].date # NaN}

Col1(df) == [i \in 1..Len(df) |-> df[i].fac1]
Col2(df) == [i \in 1..Len(df) |-> df[i].fac2]

\* The statistic of the w rows of df that end at row i.
TrailingCorr(df, i, w) == Corr(Col1(SubSeq(df, i - w + 1, i)), Col2(SubSeq(df, i - w + 1, i)))

C9_TrailingWindows ==
    \A c \in DOMAIN twins :
        (corrs[c] # Pending /\ Len(twins[c]) > rolling_window) =>
            LET df == srt[c]
                w  == rolling_window
                r  == corrs[c]
            IN  /\ Ascending(df)
                /\ SameRows(df, twins[c])
                /\ Len(r.rows) = Len(df)
                /\ \A i \in 1..Len(df) :
                      IF i < w
                      THEN r.rows[i] = [date |-> NaN, corr |-> NaN]
                      ELSE /\ r.rows[i].date = Some(df[i].date)
                           /\ r.rows[i].corr = TrailingCorr(df, i, w)

\* A group of three rows, out of date order, with window 2 and two defined
\* statistics.
C9_Witness ==
    /\ "A" \in DOMAIN twins
    /\ corrs["A"] # Pending
    /\ rolling_window = 2
    /\ Len(twins["A"]) = 3
    /\ ~Ascending(twins["A"])
    /\ Len(Contributed("A")) = 2

\* The results of an entity without its code.
ResultsOf(c) == [i \in 1..Len(Contributed(c)) |-> <<Contributed(c)[i][1], Contributed(c)[i][2]>>]

NoTies(df) == \A i, j \in 1..Len(df) : df[i].date = df[j].date => i = j

BothEvaluated == DOMAIN twins = Codes /\ corrs["A"] # Pending /\ corrs["B"] # Pending

\* The rows with one date keep the order they have in the table.
RECURSIVE StableSort(_)
StableSort(df) ==
    IF df = <<>> THEN <<>>
    ELSE LET i == CHOOSE i \in 1..Len(df) :
                    /\ \A j \in 1..Len(df) : df[i].date <= df[j].date
                    /\ \A j \in 1..(i - 1) : df[j].date # df[i].date
         IN  <<df[i]>> \o StableSort(RemoveAt(df, i))

DefinedPairs ==
    {p \in Dates \X (DOMAIN twins) :
        LET df == srt[p[2]]
            w  == rolling_window
        IN  /\ Len(df) > w
            /\ \E i \in w..Len(df) : df[i].date = p[1] /\ TrailingCorr(df, i, w) # NaN}

Sequential == Assembled([c \in DOMAIN twins |->
                  ReturnOf(srt[c], AllResults(srt[c], rolling_window), rolling_window)])

\* C10: whatever the order in which the groups and the windows of a group are
\* evaluated, the call ends as the sequential execution does, with the same
\* panel or the same exception, and a task fills only the slot of its window.
C10_ScheduleIndependent ==
    /\ (op = "func_two_daily" /\ pc \in {"done", "raised"}) =>
          (cors = Sequential.value /\ err = Sequential.raised)
    /\ \A c \in DOMAIN twins : \A i \in 1..Len(slots[c].out) :
          (i \in slots[c].ran) <=> (slots[c].out[i] # <<>>)

\* A returned panel of two entities with two defined results each.
C10_Witness ==
    /\ op = "func_two_daily"
    /\ pc = "done"
    /\ DOMAIN twins = Codes
    /\ rolling_window = 2
    /\ \A c \in Codes : Len(twins[c]) = 3 /\ Len(Contributed(c)) = 2
    /\ Cardinality(cors.index) = 2

=============================================================================
